---- MODULE Spec2Model ----
(***************************************************************************)
(* Model of the satellite-visibility tracker: the observatory resolver,    *)
(* the named-window resolvers, the per-satellite visibility scan           *)
(* (leosTrack FixWindow.compute_visibility_of_satellite and SatTrack       *)
(* compute_visible) and the pool.map dispatch of track.py.                 *)
(*                                                                         *)
(* Angles are fixed-point integers: observatory coordinates count          *)
(* arcseconds (1 degree = 3600), so that the sexagesimal division          *)
(* part / 60**idx of the resolver is exact on the inputs drawn here.       *)
(* Look angles and the solar zenith angle of a scan step count whole       *)
(* degrees.  A datetime is [ord, sec]: the proleptic Gregorian ordinal of  *)
(* its day and the second of that day; a timedelta is a number of seconds. *)
(***************************************************************************)
EXTENDS Integers, Sequences, FiniteSets, TLC

VARIABLES
    raw_observatory,    \* the observatory dictionary handed to the constructors
    observatory_data,   \* ComputeVisibility.observatory_data (leosTrack)
    sat_observatory,    \* Compute.observatory_data (SatTrack)
    time_parameters,    \* year, month, day, delta, window
    constraints,        \* the three observation constraints
    tle_file_location,  \* path of the TLE file
    sat_start,          \* what Compute.compute_visibility_of_satellite returned
    fix_window,         \* what FixWindow.get_date_time_object returned
    scan,               \* the frame of the scan in progress (single scan)
    orbit,              \* the orbit-service stub of a batch, per satellite
    pool                \* the pool.map call of track.py

vars == <<raw_observatory, observatory_data, sat_observatory, time_parameters,
          constraints, tle_file_location, sat_start, fix_window, scan, orbit,
          pool>>

Unset == [status |-> "unset"]

Abs(x) == IF x < 0 THEN -x ELSE x

ArcsecPerDegree == 60 * 60

Deg(d) == d * ArcsecPerDegree

RECURSIVE Pow60(_)
Pow60(idx) == IF idx = 0 THEN 1 ELSE 60 * Pow60(idx - 1)

-----------------------------------------------------------------------------
(* datetime.datetime and datetime.timedelta of the standard library, as    *)
(* far as the resolvers use them.                                          *)

SecondsPerHour == 60 * 60

SecondsPerDay == 24 * SecondsPerHour

IsLeap(y) == (y % 4 = 0) /\ ((y % 100 # 0) \/ (y % 400 = 0))

DaysInMonth(y, m) ==
    IF m = 2 THEN (IF IsLeap(y) THEN 29 ELSE 28)
    ELSE IF m \in {4, 6, 9, 11} THEN 30 ELSE 31

RECURSIVE DaysBeforeMonth(_, _)
DaysBeforeMonth(y, m) ==
    IF m <= 1 THEN 0 ELSE DaysBeforeMonth(y, m - 1) + DaysInMonth(y, m - 1)

DaysBeforeYear(y) ==
    (y - 1) * 365 + ((y - 1) \div 4) - ((y - 1) \div 100) + ((y - 1) \div 400)

ToOrdinal(y, m, d) == DaysBeforeYear(y) + DaysBeforeMonth(y, m) + d

\* datetime.datetime(year, month, day, hour, minute=0, second=0): raises
\* ValueError when a field is out of range.
DateTime(y, m, d, h) ==
    IF m \in 1..12 /\ d >= 1 /\ d <= DaysInMonth(y, m) /\ h \in 0..23
    THEN [status |-> "ok",
          value |-> [ord |-> ToOrdinal(y, m, d), sec |-> h * SecondsPerHour]]
    ELSE [status |-> "ValueError"]

\* Mutant of DtAdd: the time of day wraps around and the day is kept.
DtAddKeepsDay(dt, seconds) ==
    [ord |-> dt.ord, sec |-> (dt.sec + seconds) % SecondsPerDay]

\* datetime + timedelta, with carry into the neighbouring days.
DtAdd(dt, seconds) ==
    [ord |-> dt.ord + ((dt.sec + seconds) \div SecondsPerDay),
     sec |-> (dt.sec + seconds) % SecondsPerDay]

\* (a - b).total_seconds()
DtDiff(a, b) == (a.ord - b.ord) * SecondsPerDay + (a.sec - b.sec)

TimedeltaHours(h) == h * SecondsPerHour

-----------------------------------------------------------------------------
(* Observatory resolution.  A raw field is [kind |-> "num", val |-> n] or  *)
(* [kind |-> "list", parts |-> <<deg, min, sec>>].                         *)

Num(n) == [kind |-> "num", val |-> n]

Lst(parts) == [kind |-> "list", parts |-> parts]

\* The inner loop over enumerate(parameters_values): idx runs from 0.
RECURSIVE AccumulateParts(_, _)
AccumulateParts(parts, idx) ==
    IF idx >= Len(parts) THEN 0
    ELSE (Abs(parts[idx + 1]) \div Pow60(idx)) + AccumulateParts(parts, idx + 1)

\* Mutant of SignOfParts: only the degrees part gives the sign.
SignOfFirstPart(parts) ==
    IF Len(parts) > 0 /\ parts[1] < 0 THEN -1 ELSE 1

\* sign = 1, set to -1 by any negative part of the list.
SignOfParts(parts) ==
    IF \E i \in 1..Len(parts) : parts[i] < 0 THEN -1 ELSE 1

\* One field of the dictionary before the longitude branch.
FieldValue(field) ==
    IF field.kind = "list"
    THEN SignOfParts(field.parts) * AccumulateParts(field.parts, 0)
    ELSE field.val

\* Mutant of LongitudeTransform: 180 itself is taken for a value above 180.
LongitudeTransformAtLeast(value) ==
    IF value >= Deg(180) THEN Deg(360) - value ELSE -value

\* The longitude branch: raw is positive to the west, output negative.
LongitudeTransform(value) ==
    IF value > Deg(180) THEN Deg(360) - value ELSE -value

\* ComputeVisibility.set_observatory_data (leosTrack): tz becomes a timedelta.
set_observatory_data(data_observatory) ==
    [name |-> data_observatory.name,
     longitude |-> LongitudeTransform(FieldValue(data_observatory.longitude)),
     latitude |-> FieldValue(data_observatory.latitude),
     altitude |-> FieldValue(data_observatory.altitude),
     tz |-> TimedeltaHours(data_observatory.tz.val)]

\* Compute._set_observatory_data (SatTrack): tz is kept as given.
_set_observatory_data(data_observatory) ==
    [name |-> data_observatory.name,
     longitude |-> LongitudeTransform(FieldValue(data_observatory.longitude)),
     latitude |-> FieldValue(data_observatory.latitude),
     altitude |-> FieldValue(data_observatory.altitude),
     tz |-> FieldValue(data_observatory.tz)]

-----------------------------------------------------------------------------
(* Named-window resolvers.                                                 *)

\* The length of a named window, in hours.
WindowHours == 12

WindowSeconds == WindowHours * SecondsPerHour

\* Compute._set_hour (SatTrack)
_set_hour(window, observatory_time_zone) ==
    LET hour == IF window = "evening" THEN 12 + observatory_time_zone
                ELSE 0 + observatory_time_zone
    IN  IF hour >= 24 THEN hour - 24
        ELSE IF hour < 0 THEN hour + 24
        ELSE hour

\* Mutant of set_window: the day is decremented for either window.
set_window_any_window(tp, observatory_time_zone) ==
    LET day == IF observatory_time_zone < 0 THEN tp.day - 1 ELSE tp.day
    IN  <<_set_hour(tp.window, observatory_time_zone), day>>

\* Compute.set_window (SatTrack): <<hour, day>>
set_window(tp, observatory_time_zone) ==
    LET day == IF tp.window = "morning" /\ observatory_time_zone < 0
               THEN tp.day - 1 ELSE tp.day
    IN  <<_set_hour(tp.window, observatory_time_zone), day>>

\* Compute.compute_visibility_of_satellite (SatTrack): the start date_time,
\* or the ValueError of the datetime constructor.
sat_compute_visibility_of_satellite(tp, observatory_time_zone) ==
    LET hd == set_window(tp, observatory_time_zone)
    IN  DateTime(tp.year, tp.month, hd[2], hd[1])

\* sys.exit() without an argument: SystemExit(None), exit status zero.
sys_exit == [status |-> "SystemExit", code |-> 0]

\* FixWindow.get_date_time_object (leosTrack): start and finish, or the
\* sys.exit() of an unknown window keyword.
get_date_time_object(tp, time_zone) ==
    IF tp.window \notin {"morning", "evening"}
    THEN sys_exit
    ELSE LET hour == IF tp.window = "morning" THEN 0 ELSE 12
             start == DtAdd(DateTime(tp.year, tp.month, tp.day, hour).value,
                            time_zone)
         IN  [status |-> "ok",
              start_date_time |-> start,
              finish_date_time |-> DtAdd(start, TimedeltaHours(WindowHours))]

-----------------------------------------------------------------------------
(* The visibility scan.  One frame of a scan is a record; the orbit and    *)
(* ephemeris services are stubs whose answer for one step is               *)
(* [position, look, azimuth, altitude, zenith].                            *)

None == [status |-> "None"]

\* The dictionary of observatories.py that compute_visible hard-codes.
test_observatory ==
    [name |-> "European Southern Observatory, La Silla",
     longitude |-> Lst(<<Deg(70), 157680>>),
     latitude |-> Lst(<<Deg(-29), 55440>>),
     altitude |-> Num(2347),
     tz |-> Num(4)]

\* ephem.Observer() bound to an observatory, its date not yet set.
NewObserver(obs) ==
    [lat |-> obs.latitude, lon |-> obs.longitude,
     elevation |-> obs.altitude, date |-> Unset]

\* int(x / y) of two positive numbers
IntDiv(x, y) == x \div y

BoolInt(b) == IF b THEN 1 ELSE 0

\* Mutant of FixSatelliteVisibility: the comparisons are not strict.
FixSatelliteVisibilityNonStrict(satellite_altitude, sun_zenith_angle, cons) ==
    /\ satellite_altitude >= cons.lowest_altitude_satellite
    /\ cons.sun_zenith_lowest <= sun_zenith_angle
    /\ sun_zenith_angle <= cons.sun_zenith_highest

\* FixWindow lines 125-130: check_sun_zenith is multiplied, then bool().
FixSatelliteVisibility(satellite_altitude, sun_zenith_angle, cons) ==
    LET check_altitude == satellite_altitude > cons.lowest_altitude_satellite
        check_sun_zenith ==
            BoolInt(cons.sun_zenith_lowest < sun_zenith_angle)
            * BoolInt(sun_zenith_angle < cons.sun_zenith_highest)
    IN  IF check_altitude THEN check_sun_zenith # 0 ELSE FALSE

\* compute_visible lines 365-367
SatVisible(satellite_altitude, sun_zenith_angle, cons) ==
    (satellite_altitude > cons.lowest_altitude_satellite)
    /\ (cons.sun_zenith_lowest < sun_zenith_angle
        /\ sun_zenith_angle < cons.sun_zenith_highest)

SatelliteVisibility(variant, satellite_altitude, sun_zenith_angle, cons) ==
    IF variant = "FixWindow"
    THEN FixSatelliteVisibility(satellite_altitude, sun_zenith_angle, cons)
    ELSE SatVisible(satellite_altitude, sun_zenith_angle, cons)

\* np.sqrt(delta_azimuth ** 2 + delta_altitude ** 2) / dtime, kept exact as
\* the radicand under the root and the divisor.
AngularVelocity(azimuth, altitude, previous_azimuth, previous_altitude, dtime) ==
    LET delta_azimuth == (azimuth - previous_azimuth) * 3600
        delta_altitude == (altitude - previous_altitude) * 3600
    IN  [radicand |-> delta_azimuth * delta_azimuth
                      + delta_altitude * delta_altitude,
         dtime |-> dtime]

\* The frame before the first statement of the scan.
NewScan(variant, satellite_name) ==
    [pc |-> "new", variant |-> variant, satellite |-> satellite_name,
     observer |-> Unset, date_time |-> Unset, time_delta |-> 0,
     number_of_time_steps |-> 0, step |-> 0,
     previous_satellite_azimuth |-> 0, previous_satellite_altitude |-> 0,
     visible_satellite_data |-> <<>>, history |-> <<>>,
     n_lonlatalt |-> 0, n_observer_look |-> 0,
     result |-> Unset]

\* FixWindow.compute_visibility_of_satellite lines 46-67
FixScanBegin(f, tp, obs) ==
    LET w == get_date_time_object(tp, obs.tz)
    IN  IF w.status = "SystemExit"
        THEN [f EXCEPT !.pc = "exited", !.observer = NewObserver(obs),
                       !.result = w]
        ELSE [f EXCEPT
                !.pc = "loop",
                !.observer = NewObserver(obs),
                !.date_time = w.start_date_time,
                !.time_delta = tp.delta,
                !.number_of_time_steps =
                    IntDiv(DtDiff(w.finish_date_time, w.start_date_time),
                           tp.delta)]

\* compute_visible lines 265-315: the Compute object is built from the
\* hard-coded time step and observatory, the iteration count from the
\* seconds_delta argument.
SatScanBegin(f, tp) ==
    IF tp.window \notin {"morning", "evening"}
    THEN [f EXCEPT !.pc = "exited", !.result = sys_exit]
    ELSE LET time_parameters_ == [tp EXCEPT !.delta = 60]
             compute_obs == _set_observatory_data(test_observatory)
             start == sat_compute_visibility_of_satellite(time_parameters_,
                                                          compute_obs.tz)
         IN  IF start.status = "ValueError"
             THEN [f EXCEPT !.pc = "raised",
                            !.observer = NewObserver(compute_obs),
                            !.result = [status |-> "ValueError"]]
             ELSE [f EXCEPT
                     !.pc = "loop",
                     !.observer = NewObserver(compute_obs),
                     !.date_time = start.value,
                     !.time_delta = time_parameters_.delta,
                     !.number_of_time_steps =
                         IntDiv(WindowSeconds, tp.delta)]

ScanBegin(f, tp, obs) ==
    IF f.variant = "FixWindow" THEN FixScanBegin(f, tp, obs)
    ELSE SatScanBegin(f, tp)

\* The log entry of one step: what the stubs were asked and answered.
Logged(f, ans) ==
    [position |-> ans.position, look |-> ans.look, azimuth |-> ans.azimuth,
     altitude |-> ans.altitude, zenith |-> ans.zenith,
     date_time |-> f.date_time]

\* Mutant of PositionFailure: the failing step is skipped and the scan goes on.
PositionFailureSkipsStep(f, ans) ==
    [f EXCEPT !.date_time = DtAdd(@, f.time_delta),
              !.step = @ + 1,
              !.n_lonlatalt = @ + 1,
              !.history = Append(@, Logged(f, ans))]

\* Mutant of PositionFailure: the exception leaves the scan.
PositionFailureRaises(f, ans) ==
    [f EXCEPT !.pc = "raised", !.result = [status |-> "PropagationError"],
              !.n_lonlatalt = @ + 1,
              !.history = Append(@, Logged(f, ans))]

\* The except branch of the position query: return None.
PositionFailure(f, ans) ==
    [f EXCEPT !.pc = "returned", !.result = None,
              !.n_lonlatalt = @ + 1,
              !.history = Append(@, Logged(f, ans))]

\* get_observer_look is called outside the try block: its exception leaves
\* the function.
LookFailure(f, ans) ==
    [f EXCEPT !.pc = "raised", !.result = [status |-> "PropagationError"],
              !.n_lonlatalt = @ + 1, !.n_observer_look = @ + 1,
              !.history = Append(@, Logged(f, ans))]

\* The sample appended for a visible step (output.data_formating is an
\* external collaborator; the sample keeps its arguments).
Sample(f, ans, obs, observer) ==
    [date_time |-> f.date_time,
     satellite_lon_lat_alt |-> <<f.satellite, f.date_time>>,
     satellite_azimuth |-> ans.azimuth,
     satellite_altitude |-> ans.altitude,
     look_from |-> <<obs.longitude, obs.latitude, obs.altitude>>,
     ra_dec |-> [lon |-> observer.lon, lat |-> observer.lat,
                 date |-> observer.date,
                 azimuth |-> ans.azimuth, altitude |-> ans.altitude],
     sun_zenith_angle |-> ans.zenith,
     angular_velocity |->
         AngularVelocity(ans.azimuth, ans.altitude,
                         f.previous_satellite_azimuth,
                         f.previous_satellite_altitude,
                         f.time_delta)]

\* Mutant of StepBody: the observer is one object shared by the workers;
\* the conversion reads the date the scan of the first worker set last.
StepBodySharedObserver(f, ans, obs, cons) ==
    LET visible == SatelliteVisibility(f.variant, ans.altitude, ans.zenith, cons)
        own == [f.observer EXCEPT !.date = f.date_time]
        observer == IF pool.state = "mapping"
                       /\ pool.workers[1].status = "busy"
                       /\ pool.workers[1].frame.observer # Unset
                    THEN pool.workers[1].frame.observer
                    ELSE own
    IN  [f EXCEPT
            !.observer = own,
            !.visible_satellite_data =
                IF visible THEN Append(@, Sample(f, ans, obs, observer)) ELSE @,
            !.previous_satellite_azimuth = ans.azimuth,
            !.previous_satellite_altitude = ans.altitude,
            !.date_time = DtAdd(@, f.time_delta),
            !.step = @ + 1,
            !.n_lonlatalt = @ + 1, !.n_observer_look = @ + 1,
            !.history = Append(@, Logged(f, ans))]

\* Mutant of StepBody: the previous look angles are those of the last
\* visible step.
StepBodyPreviousVisible(f, ans, obs, cons) ==
    LET visible == SatelliteVisibility(f.variant, ans.altitude, ans.zenith, cons)
        observer == [f.observer EXCEPT !.date = f.date_time]
    IN  [f EXCEPT
            !.observer = observer,
            !.visible_satellite_data =
                IF visible THEN Append(@, Sample(f, ans, obs, observer)) ELSE @,
            !.previous_satellite_azimuth =
                IF visible THEN ans.azimuth ELSE @,
            !.previous_satellite_altitude =
                IF visible THEN ans.altitude ELSE @,
            !.date_time = DtAdd(@, f.time_delta),
            !.step = @ + 1,
            !.n_lonlatalt = @ + 1, !.n_observer_look = @ + 1,
            !.history = Append(@, Logged(f, ans))]

\* One iteration of the loop whose two orbit queries succeed.
StepBody(f, ans, obs, cons) ==
    LET visible == SatelliteVisibility(f.variant, ans.altitude, ans.zenith, cons)
        \* _update_observer_date: observer.date = ephem.date(date_time)
        observer == [f.observer EXCEPT !.date = f.date_time]
    IN  [f EXCEPT
            !.observer = observer,
            !.visible_satellite_data =
                IF visible THEN Append(@, Sample(f, ans, obs, observer)) ELSE @,
            !.previous_satellite_azimuth = ans.azimuth,
            !.previous_satellite_altitude = ans.altitude,
            !.date_time = DtAdd(@, f.time_delta),
            !.step = @ + 1,
            !.n_lonlatalt = @ + 1, !.n_observer_look = @ + 1,
            !.history = Append(@, Logged(f, ans))]

\* One iteration of the loop, lines 71-173 (FixWindow) and 319-405
\* (compute_visible).
ScanIteration(f, ans, obs, cons) ==
    IF ans.position = "fail" THEN PositionFailure(f, ans)
    ELSE IF ans.look = "fail" THEN LookFailure(f, ans)
    ELSE StepBody(f, ans, obs, cons)

\* Mutant of ScanEnd: the rows are returned even when there are none.
ScanEndAlwaysList(f) ==
    [f EXCEPT !.pc = "returned",
              !.result = [status |-> "list",
                          rows |-> [i \in 1..Len(f.visible_satellite_data)
                                      |-> <<f.satellite,
                                            f.visible_satellite_data[i]>>]]]

\* After the loop: the list of rows, or the implicit None.
ScanEnd(f) ==
    IF Len(f.visible_satellite_data) > 0
    THEN [f EXCEPT !.pc = "returned",
                   !.result = [status |-> "list",
                               rows |-> [i \in 1..Len(f.visible_satellite_data)
                                           |-> <<f.satellite,
                                                 f.visible_satellite_data[i]>>]]]
    ELSE [f EXCEPT !.pc = "returned", !.result = None]

-----------------------------------------------------------------------------
(* Inputs.                                                                 *)

MaxSteps == 3

\* Cadences of 1 to MaxSteps steps per window, and one that does not
\* divide the window.
Cadences == {WindowSeconds \div k : k \in 1..MaxSteps} \cup {20000}

Variants == {"FixWindow", "compute_visible"}

ZenithBounds == {<<1, 4>>, <<2, 4>>, <<1, 3>>, <<3, 4>>, <<1, 2>>}

ConstraintSets ==
    {[lowest_altitude_satellite |-> a,
      sun_zenith_lowest |-> z[1],
      sun_zenith_highest |-> z[2]] : a \in 0..2, z \in ZenithBounds}

\* What the orbit and ephemeris stubs can answer at one step.
Answers ==
    [position : {"ok"}, look : {"ok"}, azimuth : {0, 1}, altitude : {1, 2},
     zenith : {2, 3}]
    \cup {[position |-> "fail", look |-> "none", azimuth |-> 0, altitude |-> 0,
           zenith |-> 0],
          [position |-> "ok", look |-> "fail", azimuth |-> 0, altitude |-> 0,
           zenith |-> 0]}

RawLongitudes ==
    {Num(Deg(200)), Num(254628), Num(Deg(180)), Num(Deg(181)), Num(0),
     Num(Deg(360)), Num(Deg(-70)), Num(Deg(-180)), Num(Deg(-200)),
     Lst(<<Deg(70), 157680>>), Lst(<<Deg(200), 0, 0>>),
     Lst(<<Deg(179), Deg(59), Deg(59)>>), Lst(<<Deg(180), 0, Deg(1)>>),
     Lst(<<Deg(-70), 157680>>), Lst(<<Deg(70), -157680>>),
     Lst(<<Deg(-200), Deg(30)>>), Lst(<<Deg(190), -Deg(30), Deg(30)>>),
     Lst(<<Deg(70), Deg(75)>>), Lst(<<Deg(70), Deg(43), Deg(48), Deg(60)>>)}

RawLatitudes ==
    {Lst(<<Deg(-29), 55440>>), Num(Deg(19)), Lst(<<Deg(28), Deg(45), -Deg(30)>>),
     Lst(<<Deg(28), Deg(45), Deg(30)>>), Num(Deg(95))}

\* An observatory other than the one compute_visible hard-codes, in
\* position, altitude and UTC offset.
other_observatory ==
    [name |-> "Mauna Kea Observatory",
     longitude |-> Lst(<<Deg(155), 102240>>),
     latitude |-> Lst(<<Deg(19), 178560>>),
     altitude |-> Num(4215),
     tz |-> Num(10)]

RawObservatories ==
    {[test_observatory EXCEPT !.longitude = lon, !.latitude = lat] :
        lon \in RawLongitudes, lat \in RawLatitudes}
    \cup {other_observatory}

TimeZones == -12..14

Dates ==
    {<<2021, 11, 25>>, <<2021, 1, 1>>, <<2021, 3, 1>>, <<2020, 3, 1>>,
     <<2021, 12, 31>>, <<2021, 5, 1>>, <<2021, 2, 28>>}

TimeParameters(date, delta, window) ==
    [year |-> date[1], month |-> date[2], day |-> date[3],
     delta |-> delta, window |-> window]

NoPool == [state |-> "none"]

-----------------------------------------------------------------------------
(* Actions.                                                                *)

\* Mutant of Construct: the dictionary passed is updated in place.
ConstructInPlace ==
    /\ observatory_data = Unset
    /\ observatory_data' = set_observatory_data(raw_observatory)
    /\ raw_observatory' =
          [raw_observatory EXCEPT
              !.longitude = Num(observatory_data'.longitude),
              !.latitude = Num(observatory_data'.latitude)]
    /\ UNCHANGED <<sat_observatory, time_parameters,
                   constraints, tle_file_location, sat_start, fix_window,
                   scan, orbit, pool>>

\* ComputeVisibility.__init__ (leosTrack) resolving the observatory.
Construct ==
    /\ observatory_data = Unset
    /\ observatory_data' = set_observatory_data(raw_observatory)
    /\ UNCHANGED <<raw_observatory, sat_observatory, time_parameters,
                   constraints, tle_file_location, sat_start, fix_window,
                   scan, orbit, pool>>

\* Compute.__init__ (SatTrack) resolving the observatory.
SatConstruct ==
    /\ sat_observatory = Unset
    /\ sat_observatory' = _set_observatory_data(raw_observatory)
    /\ UNCHANGED <<raw_observatory, observatory_data, time_parameters,
                   constraints, tle_file_location, sat_start, fix_window,
                   scan, orbit, pool>>

\* Compute.compute_visibility_of_satellite resolving the named window.
SatResolve ==
    /\ sat_start = Unset
    /\ sat_observatory # Unset
    /\ sat_start' = sat_compute_visibility_of_satellite(time_parameters,
                                                        sat_observatory.tz)
    /\ UNCHANGED <<raw_observatory, observatory_data, sat_observatory,
                   time_parameters, constraints, tle_file_location,
                   fix_window, scan, orbit, pool>>

\* FixWindow.get_date_time_object resolving the named window.
FixResolve ==
    /\ fix_window = Unset
    /\ observatory_data # Unset
    /\ fix_window' = get_date_time_object(time_parameters, observatory_data.tz)
    /\ UNCHANGED <<raw_observatory, observatory_data, sat_observatory,
                   time_parameters, constraints, tle_file_location,
                   sat_start, scan, orbit, pool>>

\* The statements of a scan before its loop.
ScanStart ==
    /\ scan.pc = "new"
    /\ observatory_data # Unset
    /\ scan' = ScanBegin(scan, time_parameters, observatory_data)
    /\ UNCHANGED <<raw_observatory, observatory_data, sat_observatory,
                   time_parameters, constraints, tle_file_location,
                   sat_start, fix_window, orbit, pool>>

\* One iteration of the loop of a scan.
ScanStep ==
    /\ scan.pc = "loop"
    /\ scan.step < scan.number_of_time_steps
    /\ \E ans \in Answers :
          scan' = ScanIteration(scan, ans, observatory_data, constraints)
    /\ UNCHANGED <<raw_observatory, observatory_data, sat_observatory,
                   time_parameters, constraints, tle_file_location,
                   sat_start, fix_window, orbit, pool>>

\* The return after the loop of a scan.
ScanReturn ==
    /\ scan.pc = "loop"
    /\ scan.step = scan.number_of_time_steps
    /\ scan' = ScanEnd(scan)
    /\ UNCHANGED <<raw_observatory, observatory_data, sat_observatory,
                   time_parameters, constraints, tle_file_location,
                   sat_start, fix_window, orbit, pool>>

\* The next call of compute_visibility_of_satellite on the same scanner
\* object: self.observer still holds the observer of the call before.
NextCall ==
    /\ scan.pc = "returned"
    /\ scan' = [NewScan(scan.variant, scan.satellite)
                   EXCEPT !.observer = scan.observer]
    /\ UNCHANGED <<raw_observatory, observatory_data, sat_observatory,
                   time_parameters, constraints, tle_file_location,
                   sat_start, fix_window, orbit, pool>>

-----------------------------------------------------------------------------
(* The batch: pool.map of the scanner over the satellite list.  Each task  *)
(* is one chunk of the list; a worker process unpickles its own copy of    *)
(* the scanner, scans the satellites of the chunk in turn and hands the    *)
(* chunk's results (or its exception) back; the parent stores them at the  *)
(* chunk's position and pool.map returns when every chunk is in.           *)

satellites_list == <<"ONEWEB-A", "ONEWEB-B", "ONEWEB-C">>

MaxProcesses == 2

SatIndex(name) == CHOOSE i \in 1..Len(satellites_list) : satellites_list[i] = name

\* The faults an orbit stub can have: none, or a failing query at one step.
Faults ==
    {[kind |-> "none", at |-> 0]}
    \cup [kind : {"position", "look"}, at : 0..1]

\* The deterministic answer of the stub `o` for a satellite at step k:
\* ONEWEB-C stays at the altitude threshold of the batch.
StubAnswer(o, name, k) ==
    IF o[name].kind = "position" /\ o[name].at = k
    THEN [position |-> "fail", look |-> "none", azimuth |-> 0, altitude |-> 0,
          zenith |-> 0]
    ELSE IF o[name].kind = "look" /\ o[name].at = k
    THEN [position |-> "ok", look |-> "fail", azimuth |-> 0, altitude |-> 0,
          zenith |-> 0]
    ELSE [position |-> "ok", look |-> "ok",
          azimuth |-> (k + SatIndex(name)) % 2,
          altitude |-> IF name = "ONEWEB-C" THEN 1 ELSE 2,
          zenith |-> 2]

\* Pool._map_async: chunksize, extra = divmod(len(iterable), len(pool) * 4)
ChunkSize(n, processes) ==
    IF n % (processes * 4) = 0 THEN n \div (processes * 4)
    ELSE (n \div (processes * 4)) + 1

NumChunks(n, chunksize) == (n + chunksize - 1) \div chunksize

\* The indexes of the satellite list that chunk c (from 0) holds.
ChunkItems(c, n, chunksize) ==
    [j \in 1..(IF (c + 1) * chunksize <= n THEN chunksize ELSE n - c * chunksize)
        |-> c * chunksize + j]

IdleWorker == [status |-> "idle", chunk |-> 0, items |-> <<>>, out |-> <<>>,
               frame |-> Unset]

\* with mp.Pool(processes=number_processes) as pool: pool.map(...)
PoolMapBegin(processes) ==
    LET n == Len(satellites_list)
        chunksize == ChunkSize(n, processes)
    IN  [state |-> "mapping", processes |-> processes,
         chunksize |-> chunksize,
         taskqueue |-> [c \in 1..NumChunks(n, chunksize) |-> c - 1],
         workers |-> [w \in 1..processes |-> IdleWorker],
         value |-> [i \in 1..n |-> Unset],
         success |-> TRUE,
         number_left |-> NumChunks(n, chunksize),
         completed |-> <<>>,
         results |-> Unset]

\* A worker takes the next task and unpickles the scanner.
TakeTask(p, w) ==
    LET c == Head(p.taskqueue)
        items == ChunkItems(c, Len(satellites_list), p.chunksize)
    IN  [p EXCEPT
            !.taskqueue = Tail(@),
            !.workers[w] = [status |-> "busy", chunk |-> c, items |-> items,
                            out |-> <<>>,
                            frame |-> NewScan("FixWindow",
                                              satellites_list[items[1]])]]

\* Mutant of StoreChunk: results are stored in the order of completion.
StoreChunkInCompletionOrder(p, c, out) ==
    LET done == Len(SelectSeq(p.value, LAMBDA v : v # Unset))
    IN  [p EXCEPT
            !.value = [i \in 1..Len(@) |->
                          IF i > done /\ i <= done + Len(out)
                          THEN out[i - done] ELSE @[i]],
            !.number_left = @ - 1,
            !.completed = Append(@, c)]

\* MapResult._set with success: the chunk's results go to its slice.
StoreChunk(p, c, out) ==
    [p EXCEPT
        !.value = IF p.success
                  THEN [i \in 1..Len(@) |->
                           IF i > c * p.chunksize /\ i <= c * p.chunksize + Len(out)
                           THEN out[i - c * p.chunksize] ELSE @[i]]
                  ELSE @,
        !.number_left = @ - 1,
        !.completed = Append(@, c)]

\* MapResult._set with a failure: the first exception is kept.
StoreFailure(p, c, exception) ==
    [p EXCEPT
        !.success = FALSE,
        !.value = IF p.success THEN exception ELSE @,
        !.number_left = @ - 1,
        !.completed = Append(@, c)]

\* mapstar in the worker after one call of the scanner has ended: the next
\* satellite of the chunk, or the chunk is handed back.
AfterScan(p, w) ==
    LET wk == p.workers[w]
        out == Append(wk.out, wk.frame.result)
    IN  IF wk.frame.pc = "raised"
        THEN [StoreFailure(p, wk.chunk, wk.frame.result)
                 EXCEPT !.workers[w] = IdleWorker]
        ELSE IF Len(out) < Len(wk.items)
        THEN [p EXCEPT
                !.workers[w].out = out,
                !.workers[w].frame =
                    NewScan("FixWindow",
                            satellites_list[wk.items[Len(out) + 1]])]
        ELSE [StoreChunk(p, wk.chunk, out) EXCEPT !.workers[w] = IdleWorker]

\* pool.map returns the list, or raises the stored exception.
PoolMapEnd(p) ==
    IF p.success
    THEN [p EXCEPT !.state = "returned", !.results = p.value]
    ELSE [p EXCEPT !.state = "raised", !.results = p.value]

BatchFrame == <<raw_observatory, observatory_data, sat_observatory,
                time_parameters, constraints, tle_file_location,
                sat_start, fix_window, scan, orbit>>

PoolMap ==
    /\ pool.state = "none"
    /\ \E processes \in 1..MaxProcesses : pool' = PoolMapBegin(processes)
    /\ UNCHANGED BatchFrame

WorkerTake(w) ==
    /\ pool.state = "mapping"
    /\ w <= pool.processes
    /\ pool.workers[w].status = "idle"
    /\ pool.taskqueue # <<>>
    /\ pool' = TakeTask(pool, w)
    /\ UNCHANGED BatchFrame

WorkerScanStart(w) ==
    /\ pool.state = "mapping"
    /\ w <= pool.processes
    /\ pool.workers[w].status = "busy"
    /\ pool.workers[w].frame.pc = "new"
    /\ pool' = [pool EXCEPT !.workers[w].frame =
                   ScanBegin(@, time_parameters, observatory_data)]
    /\ UNCHANGED BatchFrame

WorkerScanStep(w) ==
    /\ pool.state = "mapping"
    /\ w <= pool.processes
    /\ pool.workers[w].status = "busy"
    /\ pool.workers[w].frame.pc = "loop"
    /\ pool.workers[w].frame.step < pool.workers[w].frame.number_of_time_steps
    /\ pool' = [pool EXCEPT !.workers[w].frame =
                   ScanIteration(@, StubAnswer(orbit, @.satellite, @.step),
                                 observatory_data, constraints)]
    /\ UNCHANGED BatchFrame

WorkerScanReturn(w) ==
    /\ pool.state = "mapping"
    /\ w <= pool.processes
    /\ pool.workers[w].status = "busy"
    /\ pool.workers[w].frame.pc = "loop"
    /\ pool.workers[w].frame.step = pool.workers[w].frame.number_of_time_steps
    /\ pool' = [pool EXCEPT !.workers[w].frame = ScanEnd(@)]
    /\ UNCHANGED BatchFrame

WorkerAfterScan(w) ==
    /\ pool.state = "mapping"
    /\ w <= pool.processes
    /\ pool.workers[w].status = "busy"
    /\ pool.workers[w].frame.pc \in {"returned", "raised"}
    /\ pool' = AfterScan(pool, w)
    /\ UNCHANGED BatchFrame

PoolMapDone ==
    /\ pool.state = "mapping"
    /\ pool.number_left = 0
    /\ pool' = PoolMapEnd(pool)
    /\ UNCHANGED BatchFrame

-----------------------------------------------------------------------------
(* SpecScan: one scan of one satellite, of either scanner, under every     *)
(* constraint configuration and every answer of the stubs, for the evening *)
(* window and for a window keyword that is not known.                      *)

InitScan ==
    /\ raw_observatory = test_observatory
    /\ observatory_data = set_observatory_data(test_observatory)
    /\ sat_observatory = _set_observatory_data(test_observatory)
    /\ time_parameters \in
          {TimeParameters(<<2021, 11, 25>>, d, w) :
              d \in Cadences, w \in {"evening", "night"}}
    /\ constraints \in ConstraintSets
    /\ tle_file_location = "tle.txt"
    /\ sat_start = Unset
    /\ fix_window = Unset
    /\ scan \in {NewScan(v, "ONEWEB-0008") : v \in Variants}
    /\ orbit = <<>>
    /\ pool = NoPool

NextScan == ScanStart \/ ScanStep \/ ScanReturn

SpecScan == InitScan /\ [][NextScan]_vars

(* SpecObs: the observatory resolvers on every raw observatory, followed   *)
(* by calls of the scan of either scanner, one after the other.            *)

InitObs ==
    /\ raw_observatory \in RawObservatories
    /\ observatory_data = Unset
    /\ sat_observatory = Unset
    /\ time_parameters = TimeParameters(<<2021, 11, 25>>, 21600, "evening")
    /\ constraints = [lowest_altitude_satellite |-> 1,
                      sun_zenith_lowest |-> 1, sun_zenith_highest |-> 3]
    /\ tle_file_location = "tle.txt"
    /\ sat_start = Unset
    /\ fix_window = Unset
    /\ scan \in {NewScan(v, "ONEWEB-0008") : v \in Variants}
    /\ orbit = <<>>
    /\ pool = NoPool

NextObs ==
    Construct \/ SatConstruct \/ ScanStart \/ ScanStep \/ ScanReturn \/ NextCall

SpecObs == InitObs /\ [][NextObs]_vars

(* SpecBatch: the batch of track.py over a three-satellite list, for every *)
(* fault of each satellite's orbit stub and every pool size.               *)

InitBatch ==
    /\ raw_observatory = test_observatory
    /\ observatory_data = set_observatory_data(test_observatory)
    /\ sat_observatory = _set_observatory_data(test_observatory)
    /\ time_parameters = TimeParameters(<<2021, 11, 25>>, 21600, "evening")
    /\ constraints = [lowest_altitude_satellite |-> 1,
                      sun_zenith_lowest |-> 1, sun_zenith_highest |-> 3]
    /\ tle_file_location = "tle.txt"
    /\ sat_start = Unset
    /\ fix_window = Unset
    /\ scan = NewScan("FixWindow", "ONEWEB-0008")
    /\ orbit \in [{satellites_list[i] : i \in 1..Len(satellites_list)} -> Faults]
    /\ pool = NoPool

NextBatch ==
    \/ PoolMap
    \/ \E w \in 1..MaxProcesses : WorkerTake(w)
    \/ \E w \in 1..MaxProcesses : WorkerScanStart(w)
    \/ \E w \in 1..MaxProcesses : WorkerScanStep(w)
    \/ \E w \in 1..MaxProcesses : WorkerScanReturn(w)
    \/ \E w \in 1..MaxProcesses : WorkerAfterScan(w)
    \/ PoolMapDone

SpecBatch == InitBatch /\ [][NextBatch]_vars

(* SpecWindow: the two named-window resolvers on every date, window and    *)
(* UTC offset.                                                             *)

InitWindow ==
    /\ raw_observatory \in {[test_observatory EXCEPT !.tz = Num(tz)] :
                               tz \in TimeZones}
    /\ observatory_data = set_observatory_data(raw_observatory)
    /\ sat_observatory = _set_observatory_data(raw_observatory)
    /\ time_parameters \in
          {TimeParameters(d, 60, w) : d \in Dates, w \in {"morning", "evening"}}
    /\ constraints = [lowest_altitude_satellite |-> 1,
                      sun_zenith_lowest |-> 1, sun_zenith_highest |-> 3]
    /\ tle_file_location = "tle.txt"
    /\ sat_start = Unset
    /\ fix_window = Unset
    /\ scan = NewScan("FixWindow", "ONEWEB-0008")
    /\ orbit = <<>>
    /\ pool = NoPool

NextWindow == SatResolve \/ FixResolve

SpecWindow == InitWindow /\ [][NextWindow]_vars

-----------------------------------------------------------------------------
(* Properties of a single scan (SpecScan).                                 *)

\* The steps of the log both of whose orbit queries succeeded.
GoodSteps(f) ==
    {k \in 1..Len(f.history) :
        f.history[k].position = "ok" /\ f.history[k].look = "ok"}

\* The samples of the record taken at the time of step k of the log.
SamplesAt(f, k) ==
    {i \in 1..Len(f.visible_satellite_data) :
        f.visible_satellite_data[i].date_time = f.history[k].date_time}

StrictlyVisible(e, cons) ==
    /\ e.altitude > cons.lowest_altitude_satellite
    /\ cons.sun_zenith_lowest < e.zenith
    /\ e.zenith < cons.sun_zenith_highest

Completed(f) ==
    f.pc = "returned" /\ f.step = f.number_of_time_steps
    /\ Len(f.history) = f.number_of_time_steps

ResultRows(f) == IF f.result.status = "list" THEN f.result.rows ELSE <<>>

\* C1: a step contributes a sample to the record if and only if
\* altitude > threshold and lowest < zenith < highest, all strict; at the
\* end of a completed scan the returned rows are exactly those samples.
C1_SampleIffStrictlyVisible ==
    /\ \A k \in GoodSteps(scan) :
          /\ (SamplesAt(scan, k) # {}) <=> StrictlyVisible(scan.history[k], constraints)
          /\ Cardinality(SamplesAt(scan, k)) <= 1
    /\ Completed(scan) =>
          /\ Len(ResultRows(scan)) =
                Cardinality({k \in GoodSteps(scan) :
                                StrictlyVisible(scan.history[k], constraints)})
          /\ \A i \in 1..Len(ResultRows(scan)) :
                ResultRows(scan)[i][2] = scan.visible_satellite_data[i]

\* A completed scan with a visible step, a step whose altitude equals the
\* threshold and a step whose zenith equals a bound.
C1_Witness ==
    /\ Completed(scan)
    /\ Len(ResultRows(scan)) >= 1
    /\ \E k \in GoodSteps(scan) :
          scan.history[k].altitude = constraints.lowest_altitude_satellite
    /\ \E k \in GoodSteps(scan) :
          /\ scan.history[k].altitude > constraints.lowest_altitude_satellite
          /\ scan.history[k].zenith \in {constraints.sun_zenith_lowest,
                                         constraints.sun_zenith_highest}

PositionFailed(f) ==
    Len(f.history) > 0 /\ f.history[Len(f.history)].position = "fail"

LookFailed(f) ==
    /\ Len(f.history) > 0
    /\ f.history[Len(f.history)].position = "ok"
    /\ f.history[Len(f.history)].look = "fail"

\* C4: when the position query fails at step k the scan returns None at
\* that step, whatever it had accumulated, having made k + 1 position
\* queries and k look-angle queries, and it makes no query afterwards.
C4_FailFast ==
    /\ [](PositionFailed(scan) =>
            /\ scan.pc = "returned"
            /\ scan.result = None
            /\ scan.n_lonlatalt = scan.step + 1
            /\ scan.n_observer_look = scan.step
            /\ Len(scan.history) = scan.step + 1)
    /\ [][PositionFailed(scan) => scan' = scan]_vars
    /\ [][Len(scan'.history) = scan'.n_lonlatalt]_vars

\* A position failure after a visible sample was accumulated.
C4_Witness ==
    /\ PositionFailed(scan)
    /\ scan.step >= 1
    /\ Len(scan.visible_satellite_data) >= 1
    /\ scan.result = None

\* C5: a failure of either orbit query of a step is caught inside the scan
\* and turns the result of the scan into None.
C5_EitherFailureCaught ==
    (PositionFailed(scan) \/ LookFailed(scan)) =>
        (scan.pc = "returned" /\ scan.result = None)

\* The azimuth and altitude of the step before step k of the log.
PreviousLook(f, k) ==
    IF k = 1 THEN <<0, 0>>
    ELSE <<f.history[k - 1].azimuth, f.history[k - 1].altitude>>

\* The cadence of a scan: the configured delta of FixWindow, the time step
\* of the Compute object in compute_visible.
Cadence(f) == IF f.variant = "FixWindow" THEN time_parameters.delta ELSE 60

Square(x) == x * x

\* C6: the angular velocity of every sample is
\* sqrt((3600*(az - prev_az))^2 + (3600*(alt - prev_alt))^2) / cadence with
\* prev the look angles of the step before, visible or not, and (0, 0) at
\* the first step; steps are one cadence apart; a change of 1 degree in
\* azimuth alone at a cadence of 60 s gives 60 arcsec/s.
C6_AngularVelocity ==
    \A k \in GoodSteps(scan) : \A i \in SamplesAt(scan, k) :
        LET s == scan.visible_satellite_data[i]
            e == scan.history[k]
            prev == PreviousLook(scan, k)
        IN  /\ s.angular_velocity.radicand =
                  Square(3600 * (e.azimuth - prev[1]))
                  + Square(3600 * (e.altitude - prev[2]))
            /\ s.angular_velocity.dtime = Cadence(scan)
            /\ k > 1 => DtDiff(e.date_time, scan.history[k - 1].date_time)
                           = Cadence(scan)
            /\ (Cadence(scan) = 60 /\ Abs(e.azimuth - prev[1]) = 1
                /\ e.altitude = prev[2]) =>
                   s.angular_velocity.radicand = Square(60 * s.angular_velocity.dtime)

\* A visible step at a cadence of 60 s, one degree of azimuth away from the
\* step before it at the same altitude, that step not visible.
C6_Witness ==
    \E k \in GoodSteps(scan) : \E i \in SamplesAt(scan, k) :
        /\ k > 1
        /\ SamplesAt(scan, k - 1) = {}
        /\ scan.history[k].azimuth - scan.history[k - 1].azimuth = 1
        /\ scan.history[k].altitude = scan.history[k - 1].altitude
        /\ scan.visible_satellite_data[i].angular_velocity =
              [radicand |-> 12960000, dtime |-> 60]

-----------------------------------------------------------------------------
(* Properties of the batch (SpecBatch).                                    *)

\* The scan of one satellite run alone, from its first statement to its
\* end, against the orbit stub o.
RECURSIVE RunScan(_, _)
RunScan(f, o) ==
    IF f.pc = "new"
    THEN RunScan(ScanBegin(f, time_parameters, observatory_data), o)
    ELSE IF f.pc = "loop" /\ f.step < f.number_of_time_steps
    THEN RunScan(ScanIteration(f, StubAnswer(o, f.satellite, f.step),
                               observatory_data, constraints), o)
    ELSE IF f.pc = "loop" THEN ScanEnd(f)
    ELSE f

ScanAlone(o, name) == RunScan(NewScan("FixWindow", name), o).result

Satellites == {satellites_list[i] : i \in 1..Len(satellites_list)}

\* C2: the list pool.map returns has one entry per satellite of the list
\* and entry i is the result of scanning satellite i, for every pool size
\* and every order in which the workers finish; while the map is running
\* every slot already filled holds the result of its own satellite.
C2_ResultsInCatalogueOrder ==
    /\ pool.state = "returned" =>
          /\ Len(pool.results) = Len(satellites_list)
          /\ \A i \in 1..Len(satellites_list) :
                pool.results[i] = ScanAlone(orbit, satellites_list[i])
    /\ (pool.state = "mapping" /\ pool.success) =>
          \A i \in 1..Len(satellites_list) :
              pool.value[i] \in {Unset, ScanAlone(orbit, satellites_list[i])}

\* A returned batch of two workers whose first finished chunk was not the
\* first of the list, with a list and a None among the results.
C2_Witness ==
    /\ pool.state = "returned"
    /\ pool.processes = 2
    /\ pool.completed[1] # 0
    /\ pool.results[1].status = "list"
    /\ pool.results[2] = None
    /\ pool.results[3] = None

\* The workers holding a scan of satellite B whose position query failed.
FailedAt(B) ==
    {w \in 1..pool.processes :
        /\ pool.workers[w].status = "busy"
        /\ pool.workers[w].frame.satellite = B
        /\ PositionFailed(pool.workers[w].frame)}

\* C3: when the position query fails for a satellite B the failure never
\* makes pool.map raise, the worker that met it can hand its results back
\* and go on, B's entry is None and every other entry is the one of the
\* run in which B's orbit has no fault.
C3_FaultIsolation ==
    \A B \in Satellites :
        orbit[B].kind = "position" =>
            LET without == [orbit EXCEPT ![B] = [kind |-> "none", at |-> 0]]
            IN  /\ pool.state = "returned" =>
                      /\ pool.results[SatIndex(B)] = None
                      /\ \A A \in Satellites \ {B} :
                            pool.results[SatIndex(A)] = ScanAlone(without, A)
                /\ pool.state = "raised" =>
                      \E A \in Satellites \ {B} : orbit[A].kind = "look"
                /\ pool.state = "mapping" =>
                      \A w \in FailedAt(B) :
                          /\ pool.workers[w].frame.result = None
                          /\ ENABLED WorkerAfterScan(w)

\* A returned batch in which the position query of ONEWEB-A failed at its
\* second step, after a visible first step, and the two others did not fail.
C3_Witness ==
    /\ pool.state = "returned"
    /\ orbit["ONEWEB-A"] = [kind |-> "position", at |-> 1]
    /\ orbit["ONEWEB-B"].kind = "none"
    /\ orbit["ONEWEB-C"].kind = "none"
    /\ pool.results[1] = None
    /\ pool.results[2].status = "list"

-----------------------------------------------------------------------------
(* Properties of the named-window resolvers (SpecWindow).                  *)

ConfiguredOrdinal ==
    ToOrdinal(time_parameters.year, time_parameters.month, time_parameters.day)

UtcOffset == raw_observatory.tz.val

\* C7: for "evening" the SatTrack resolver starts at hour
\* (12 + utc_offset) mod 24 of the configured day, for every offset in
\* [-12, 14]; for utc_offset = +4 that is hour 16 of the same day.
C7_EveningStart ==
    (sat_start # Unset /\ time_parameters.window = "evening") =>
        /\ sat_start.status = "ok"
        /\ sat_start.value.ord = ConfiguredOrdinal
        /\ sat_start.value.sec = ((12 + UtcOffset) % 24) * SecondsPerHour
        /\ UtcOffset = 4 => sat_start.value.sec = 16 * SecondsPerHour

\* The evening window resolved at utc_offset = +4.
C7_Witness ==
    /\ sat_start # Unset
    /\ time_parameters.window = "evening"
    /\ UtcOffset = 4
    /\ sat_start.value = [ord |-> ConfiguredOrdinal, sec |-> 16 * SecondsPerHour]

\* C8: for "morning" the SatTrack resolver starts, for a negative offset,
\* at hour 24 + utc_offset of the previous calendar day, a valid date-time
\* for every date; for a non-negative offset at hour utc_offset of the
\* configured day.
C8_MorningStart ==
    (sat_start # Unset /\ time_parameters.window = "morning") =>
        /\ sat_start.status = "ok"
        /\ UtcOffset < 0 =>
              sat_start.value = [ord |-> ConfiguredOrdinal - 1,
                                 sec |-> (24 + UtcOffset) * SecondsPerHour]
        /\ UtcOffset >= 0 =>
              sat_start.value = [ord |-> ConfiguredOrdinal,
                                 sec |-> UtcOffset * SecondsPerHour]

-----------------------------------------------------------------------------
(* Properties of the observatory resolvers (SpecObs).                      *)

\* |p0| + |p1|/60 + |p2|/3600 of a raw field (a fourth part, if given,
\* counts 1/216000), or |value| of a decimal.
Magnitude(field) ==
    IF field.kind = "num" THEN Abs(field.val)
    ELSE LET p == field.parts
         IN  (IF Len(p) >= 1 THEN Abs(p[1]) ELSE 0)
             + (IF Len(p) >= 2 THEN Abs(p[2]) \div 60 ELSE 0)
             + (IF Len(p) >= 3 THEN Abs(p[3]) \div 3600 ELSE 0)
             + (IF Len(p) >= 4 THEN Abs(p[4]) \div 216000 ELSE 0)

HasNegative(field) ==
    IF field.kind = "num" THEN field.val < 0
    ELSE \E i \in 1..Len(field.parts) : field.parts[i] < 0

\* The raw value with its sign: negative when a component is negative.
Signed(field) ==
    IF HasNegative(field) THEN -Magnitude(field) ELSE Magnitude(field)

Resolved == {o \in {observatory_data, sat_observatory} : o # Unset}

\* C9 as stated: the output is 360 - magnitude when the magnitude is above
\* 180 and -magnitude otherwise, for every raw longitude.
C9_ByMagnitude ==
    \A o \in Resolved :
        o.longitude =
            IF Magnitude(raw_observatory.longitude) > Deg(180)
            THEN Deg(360) - Magnitude(raw_observatory.longitude)
            ELSE -Magnitude(raw_observatory.longitude)

\* C9 amended: the rule applies to the signed raw value s: the output is
\* 360 - s when s > 180 and -s otherwise; without a negative component s is
\* the magnitude, so raw 200 gives 160 and raw 70.73 (decimal, or 70 deg
\* 43.8 min) gives -70.73.
C9_BySignedValue ==
    \A o \in Resolved :
        /\ o.longitude =
              IF Signed(raw_observatory.longitude) > Deg(180)
              THEN Deg(360) - Signed(raw_observatory.longitude)
              ELSE -Signed(raw_observatory.longitude)
        /\ raw_observatory.longitude = Num(Deg(200)) => o.longitude = Deg(160)
        /\ raw_observatory.longitude \in {Num(254628), Lst(<<Deg(70), 157680>>)}
              => o.longitude = -254628

\* Both resolvers have resolved the raw longitude 200 to 160.
C9_Witness ==
    /\ raw_observatory.longitude = Num(Deg(200))
    /\ observatory_data # Unset /\ observatory_data.longitude = Deg(160)
    /\ sat_observatory # Unset /\ sat_observatory.longitude = Deg(160)

\* C10: once resolved, the stored longitude lies in [-180, 180] for every
\* raw longitude, negative ones included, and stays what the resolution
\* made of the raw value through every scan.
C10_LongitudeInRange ==
    /\ \A o \in Resolved : -Deg(180) <= o.longitude /\ o.longitude <= Deg(180)
    /\ observatory_data # Unset =>
          observatory_data = set_observatory_data(raw_observatory)

WellFormedAngle(field, lo, hi) ==
    /\ field.kind = "list" =>
          /\ Len(field.parts) \in 1..3
          /\ \A i \in 2..Len(field.parts) : Abs(field.parts[i]) < Deg(60)
    /\ Deg(lo) <= Signed(field) /\ Signed(field) <= Deg(hi)

WellFormedObservatory(o) ==
    /\ WellFormedAngle(o.longitude, 0, 360)
    /\ WellFormedAngle(o.latitude, -90, 90)

ValidationError == [status |-> "ValidationError"]

\* C12: an observatory whose latitude is beyond 90 degrees, whose raw
\* longitude is outside [0, 360], whose minutes or seconds reach 60 or whose
\* list has more than three parts is never resolved to a value: resolution
\* ends in a ValidationError and no scan is started with it.
C12_BadInputRejected ==
    ~WellFormedObservatory(raw_observatory) =>
        /\ observatory_data \in {Unset, ValidationError}
        /\ sat_observatory \in {Unset, ValidationError}
        /\ scan.pc = "new"

-----------------------------------------------------------------------------
(* Properties of a single scan, continued (SpecScan).                      *)

\* C13: with a window keyword other than "morning" or "evening" a scan
\* that was started ends in a process exit before it has made a step or a
\* query, and the exit status is not zero.
C13_UnknownWindowFatal ==
    (time_parameters.window \notin {"morning", "evening"} /\ scan.pc # "new") =>
        /\ scan.pc = "exited"
        /\ scan.step = 0
        /\ scan.n_lonlatalt = 0 /\ scan.n_observer_look = 0
        /\ scan.result.status = "SystemExit"
        /\ scan.result.code # 0

\* C14: a scan that ran to the end of its window returns its samples, each
\* prefixed with the satellite name, when a step was visible, and None when
\* none was; a scan whose position query failed returns that same None; a
\* returned result is never an empty list.
C14_ResultShape ==
    /\ Completed(scan) =>
          IF Len(scan.visible_satellite_data) > 0
          THEN /\ scan.result.status = "list"
               /\ Len(scan.result.rows) = Len(scan.visible_satellite_data)
               /\ \A i \in 1..Len(scan.result.rows) :
                     scan.result.rows[i] =
                         <<scan.satellite, scan.visible_satellite_data[i]>>
          ELSE scan.result = None
    /\ PositionFailed(scan) => scan.result = None
    /\ scan.pc = "returned" =>
          /\ scan.result.status \in {"list", "None"}
          /\ scan.result.status = "list" => Len(scan.result.rows) > 0

\* A scan of three steps that ran to its end without a visible step and
\* returned None.
C14_Witness ==
    /\ Completed(scan)
    /\ Len(scan.history) = 3
    /\ GoodSteps(scan) = 1..3
    /\ scan.visible_satellite_data = <<>>
    /\ scan.result = None

\* The window the scan of the configured context is to cover.
ResolvedWindow == get_date_time_object(time_parameters, observatory_data.tz)

\* The offsets from the start of the window of the times a scan evaluated.
EvaluatedOffsets(f) ==
    {DtDiff(f.history[k].date_time, ResolvedWindow.start_date_time) :
        k \in 1..Len(f.history)}

\* The offsets k * cadence, k >= 0, that lie before the end of the window.
OffsetsBeforeEnd(cadence) ==
    LET length == DtDiff(ResolvedWindow.finish_date_time,
                         ResolvedWindow.start_date_time)
    IN  {k * cadence : k \in {j \in 0..(length \div cadence) : j * cadence < length}}

SamplesIncrease(f) ==
    \A i, j \in 1..Len(f.visible_satellite_data) :
        i < j => DtDiff(f.visible_satellite_data[j].date_time,
                        f.visible_satellite_data[i].date_time) > 0

\* C16: a FixWindow scan without a failing query evaluates exactly the times
\* start + k * cadence, k >= 0, that are before the end of the window, for
\* every cadence, also one that does not divide the window; the samples of
\* its record have strictly increasing times.
C16_StepTimes ==
    /\ SamplesIncrease(scan)
    /\ (scan.variant = "FixWindow" /\ Completed(scan)
        /\ GoodSteps(scan) = 1..Len(scan.history)) =>
           EvaluatedOffsets(scan) = OffsetsBeforeEnd(time_parameters.delta)

\* The seconds_delta argument of compute_visible.
seconds_delta == time_parameters.delta

\* C17: in compute_visible consecutive steps are seconds_delta apart, the
\* angular velocity of every sample is divided by seconds_delta, and the
\* last step of a scan without a failing query is the largest
\* start + k * seconds_delta before start + 12 hours.
C17_StepIsSecondsDelta ==
    scan.variant = "compute_visible" =>
        /\ \A k \in 2..Len(scan.history) :
              DtDiff(scan.history[k].date_time, scan.history[k - 1].date_time)
                  = seconds_delta
        /\ \A i \in 1..Len(scan.visible_satellite_data) :
              scan.visible_satellite_data[i].angular_velocity.dtime = seconds_delta
        /\ (Completed(scan) /\ GoodSteps(scan) = 1..Len(scan.history)) =>
              /\ Len(scan.history) >= 1
              /\ LET last == DtDiff(scan.history[Len(scan.history)].date_time,
                                    scan.history[1].date_time)
                 IN  /\ last < WindowSeconds
                     /\ last + seconds_delta >= WindowSeconds

\* floor((end_utc - start_utc) / cadence)
StepLimit ==
    DtDiff(ResolvedWindow.finish_date_time, ResolvedWindow.start_date_time)
        \div time_parameters.delta

\* C20: a started FixWindow scan on a resolved window makes at most
\* floor((end - start) / cadence) steps and has ended only after the last
\* step of the window or at the first step whose position query failed.
C20_EndsInTwoWays ==
    (scan.variant = "FixWindow" /\ scan.pc # "new"
     /\ time_parameters.window \in {"morning", "evening"}) =>
        /\ scan.step <= StepLimit
        /\ Len(scan.history) <= StepLimit
        /\ scan.pc # "loop" =>
              \/ /\ scan.pc = "returned"
                 /\ scan.step = StepLimit
                 /\ GoodSteps(scan) = 1..StepLimit
              \/ /\ scan.pc = "returned"
                 /\ PositionFailed(scan)
                 /\ GoodSteps(scan) = 1..(Len(scan.history) - 1)

-----------------------------------------------------------------------------
(* Properties of the named-window resolvers, continued (SpecWindow).       *)

\* Midnight at the beginning of the configured local date.
ConfiguredMidnight == [ord |-> ConfiguredOrdinal, sec |-> 0]

\* C15: FixWindow.get_date_time_object starts the window at 00:00 (morning)
\* or 12:00 (evening) of the configured date plus the UTC offset, carried
\* into the neighbouring day, month or year, and ends it exactly 12 hours
\* later, so the start is before the end.
C15_FixWindowStartEnd ==
    fix_window # Unset =>
        LET local_hour == IF time_parameters.window = "morning" THEN 0 ELSE 12
            start == fix_window.start_date_time
            finish == fix_window.finish_date_time
        IN  /\ fix_window.status = "ok"
            /\ start.sec \in 0..(SecondsPerDay - 1)
            /\ finish.sec \in 0..(SecondsPerDay - 1)
            /\ DtDiff(start, ConfiguredMidnight) = (local_hour + UtcOffset) * 3600
            /\ DtDiff(finish, start) = 12 * 3600
            /\ \/ start.ord < finish.ord
               \/ start.ord = finish.ord /\ start.sec < finish.sec
            /\ (time_parameters.window = "evening" /\ UtcOffset = 14
                /\ ConfiguredOrdinal = ToOrdinal(2021, 12, 31)) =>
                   /\ start = [ord |-> ToOrdinal(2022, 1, 1), sec |-> 2 * 3600]
                   /\ finish = [ord |-> ToOrdinal(2022, 1, 1), sec |-> 14 * 3600]
            /\ (time_parameters.window = "morning" /\ UtcOffset = -5
                /\ ConfiguredOrdinal = ToOrdinal(2020, 3, 1)) =>
                   /\ start = [ord |-> ToOrdinal(2020, 2, 29), sec |-> 19 * 3600]
                   /\ finish = [ord |-> ToOrdinal(2020, 3, 1), sec |-> 7 * 3600]

\* The evening window of 2021-12-31 at utc_offset = +14 resolved: it starts
\* at 02:00 of 2022-01-01.
C15_Witness ==
    /\ fix_window # Unset
    /\ time_parameters.window = "evening"
    /\ UtcOffset = 14
    /\ ConfiguredOrdinal = ToOrdinal(2021, 12, 31)
    /\ fix_window.start_date_time.ord = ConfiguredOrdinal + 1
    /\ fix_window.start_date_time.sec = 2 * 3600

-----------------------------------------------------------------------------
(* Frame of the scan (SpecObs).                                            *)

\* C18: the calls of the FixWindow scan, ending normally or with a failing
\* position query, leave observatory_data, constraints, time_parameters and
\* tle_file_location as they were after construction, every scan runs with
\* the time_delta of the configuration, and resolving the observatory leaves
\* the dictionary passed as it was.
C18_ContextUnchanged ==
    /\ [](observatory_data # Unset =>
            observatory_data = set_observatory_data(raw_observatory))
    /\ []((scan.variant = "FixWindow"
            /\ scan.pc \in {"loop", "returned", "raised"}) =>
            scan.time_delta = time_parameters.delta)
    /\ [][/\ raw_observatory' = raw_observatory
          /\ constraints' = constraints
          /\ time_parameters' = time_parameters
          /\ tle_file_location' = tle_file_location
          /\ observatory_data # Unset => observatory_data' = observatory_data]_vars

\* A second call is about to begin after a call that ended with a failing
\* position query at its second step; the observatory is the one resolved
\* from the list [70, 43.8].
C18_Witness ==
    /\ scan.variant = "FixWindow"
    /\ scan.pc = "new"
    /\ scan.observer # Unset
    /\ scan.observer.date = ResolvedWindow.start_date_time
    /\ raw_observatory.longitude = Lst(<<Deg(70), 157680>>)
    /\ observatory_data.longitude = -254628
    /\ observatory_data.tz = TimedeltaHours(4)

-----------------------------------------------------------------------------
(* Properties of the batch, continued (SpecBatch).                         *)

\* The workers that are inside a scan.
Scanning ==
    {w \in 1..pool.processes :
        pool.workers[w].status = "busy" /\ pool.workers[w].frame.pc # "new"}

\* C19: in every interleaving of the steps of the scans of a batch, each
\* scan works on its own observer, previous look angles, current time and
\* sample list: the conversion of every sample used the observer date that
\* the step of that sample set, the observer of a scan carries the date of
\* that scan's last step, the previous look angles are those of that scan's
\* last step, and the samples and the result of a scan are those of the
\* scan of the same satellite run alone.
C19_ScansDoNotInterfere ==
    pool.state = "mapping" =>
        \A w \in Scanning :
            LET f == pool.workers[w].frame
                alone == RunScan(NewScan("FixWindow", f.satellite), orbit)
                good == GoodSteps(f)
            IN  /\ \A i \in 1..Len(f.visible_satellite_data) :
                      LET s == f.visible_satellite_data[i]
                      IN  /\ s.ra_dec.date = s.date_time
                          /\ s.ra_dec.lon = observatory_data.longitude
                          /\ s.ra_dec.lat = observatory_data.latitude
                          /\ i <= Len(alone.visible_satellite_data)
                          /\ s = alone.visible_satellite_data[i]
                /\ f.observer.date =
                      IF good = {} THEN Unset
                      ELSE f.history[Len(f.history)
                                     - (IF Len(f.history) \in good THEN 0 ELSE 1)]
                              .date_time
                /\ (f.pc = "loop" /\ f.step > 0) =>
                      /\ f.previous_satellite_azimuth =
                            StubAnswer(orbit, f.satellite, f.step - 1).azimuth
                      /\ f.date_time = DtAdd(f.history[f.step].date_time,
                                             f.time_delta)
                /\ f.pc \in {"returned", "raised"} => f.result = alone.result

\* Two workers are inside the scans of two satellites at different steps,
\* each with a sample of its own, their observers at different dates.
C19_Witness ==
    /\ pool.state = "mapping"
    /\ pool.processes = 2
    /\ Scanning = {1, 2}
    /\ pool.workers[1].frame.satellite # pool.workers[2].frame.satellite
    /\ pool.workers[1].frame.step = 1
    /\ pool.workers[2].frame.step = 2
    /\ Len(pool.workers[1].frame.visible_satellite_data) = 1
    /\ Len(pool.workers[2].frame.visible_satellite_data) = 2
    /\ pool.workers[1].frame.observer.date # pool.workers[2].frame.observer.date

-----------------------------------------------------------------------------
(* The two named-window resolvers against each other (SpecWindow).         *)

\* C21: for every date, window and UTC offset in [-12, 14] the start the
\* SatTrack resolver builds is the same instant as the start_date_time of
\* FixWindow.get_date_time_object.
C21_ResolversAgree ==
    (sat_start # Unset /\ fix_window # Unset) =>
        /\ sat_start.status = "ok"
        /\ fix_window.status = "ok"
        /\ sat_start.value = fix_window.start_date_time

-----------------------------------------------------------------------------
(* The observatory of a compute_visible scan (SpecObs).                    *)

\* The observatory_data argument of compute_visible: the resolved
\* observatory of the run.
ArgumentObservatory == _set_observatory_data(raw_observatory)

\* The first time a scan evaluates, or is about to evaluate.
FirstTime(f) == IF Len(f.history) > 0 THEN f.history[1].date_time ELSE f.date_time

\* C22: in a compute_visible scan the observer of the equatorial transform
\* is at the position of the observatory_data argument, the window starts
\* at the start resolved with that observatory's UTC offset, and every
\* sample was converted at the position its look angles were taken from.
C22_OneObservatory ==
    (scan.variant = "compute_visible" /\ scan.pc \in {"loop", "returned", "raised"}
     /\ scan.date_time # Unset) =>
        /\ scan.observer.lon = ArgumentObservatory.longitude
        /\ scan.observer.lat = ArgumentObservatory.latitude
        /\ scan.observer.elevation = ArgumentObservatory.altitude
        /\ FirstTime(scan) =
              sat_compute_visibility_of_satellite(time_parameters,
                                                  ArgumentObservatory.tz).value
        /\ \A i \in 1..Len(scan.visible_satellite_data) :
              LET s == scan.visible_satellite_data[i]
              IN  <<s.ra_dec.lon, s.ra_dec.lat>> = <<s.look_from[1], s.look_from[2]>>

====
